---- MODULE Spec2Model ----
(***************************************************************************)
(* Model of pipeline.py: a batch runner (main) that drives every input     *)
(* file through a linear two-node graph (generation_node, validation_node) *)
(* and aggregates one ItemResult per file into a report.                   *)
(*                                                                         *)
(* Data abstraction.  A Python str is a record [t, s, n]: s identifies its *)
(* content and n is the number of whitespace-separated words it holds; a   *)
(* list of str is [t, s, n] with n its length.  A JSON text is a record    *)
(* [wf, val]: wf says whether it is well-formed JSON and val is the JSON   *)
(* value it denotes, an object being an ordered sequence of key/value      *)
(* entries.  Optional values are sequences: <<>> is None, <<x>> is x.      *)
(***************************************************************************)
EXTENDS Integers, Sequences, FiniteSets, TLC

\* ------------------------------------------------------------------ bounds

NumFiles == 3

\* ------------------------------------------------- optional values (None)

None == <<>>
Some(x) == <<x>>

\* --------------------------------------------------------- Python values

PyStr(s, n) == [t |-> "str", s |-> s, n |-> n]
PyList(s, n) == [t |-> "list", s |-> s, n |-> n]
PyBool(b) == [t |-> "bool", s |-> IF b THEN "true" ELSE "false", n |-> 0]

\* ----------------------------------------------------------- JSON values

JLeaf(t, s, n) == [t |-> t, s |-> s, n |-> n, kv |-> <<>>]
JObj(kv) == [t |-> "obj", s |-> "", n |-> 0, kv |-> kv]
Entry(k, v) == [k |-> k, v |-> v]
JsonText(val) == [wf |-> TRUE, val |-> val]
\* a str that json cannot parse
BrokenText == [wf |-> FALSE, val |-> JLeaf("null", "", 0)]

HasKey(kv, k) == \E i \in 1..Len(kv) : kv[i].k = k
\* a JSON object that repeats a key keeps the last value
LastIdx(kv, k) ==
  CHOOSE i \in 1..Len(kv) : kv[i].k = k /\ \A j \in (i+1)..Len(kv) : kv[j].k # k
GetKey(kv, k) == kv[LastIdx(kv, k)].v
PyOf(v) == [t |-> v.t, s |-> v.s, n |-> v.n]

\* json.dumps(d, ensure_ascii=False) of a dict shaped like mock_response:
\* the keys are written in the dict's insertion order
DumpLeaf(p) == JLeaf(p.t, p.s, p.n)
json_dumps(d) ==
  JsonText(JObj(<<
    Entry("analysis", DumpLeaf(d.analysis)),
    Entry("themes", DumpLeaf(d.themes)),
    Entry("signifiers", DumpLeaf(d.signifiers)),
    Entry("hypotheses", DumpLeaf(d.hypotheses)),
    Entry("questions", DumpLeaf(d.questions)),
    Entry("risk_assessment", JObj(<<
      Entry("level", DumpLeaf(d.risk_assessment.level)),
      Entry("signals", DumpLeaf(d.risk_assessment.signals)) >>)),
    Entry("clinical_report", JObj(<<
      Entry("required", DumpLeaf(d.clinical_report.required)),
      Entry("summary", DumpLeaf(d.clinical_report.summary)) >>)) >>))

\* ------------------------------------------------- 1. schema (pydantic)

min_words == 40
max_words == 200
themes_min == 3
themes_max == 6
signifiers_min == 3
signifiers_max == 8
hypotheses_min == 2
hypotheses_max == 4
questions_min == 3
questions_max == 6
\* Literal["baixo", "médio", "alto"]; "medio" is written here for "médio"
RiskLevels == {"baixo", "medio", "alto"}

\* one entry of ValidationError.errors()
Err(msg, loc) == [msg |-> msg, loc |-> loc]

\* len(v.split())
word_count(v) == v.n

\* mutant: both limits are exclusive
validate_analysis_length_strict(v) ==
  IF word_count(v) <= min_words THEN "Value error, Analise muito curta"
  ELSE IF word_count(v) >= max_words THEN "Value error, Analise muito longa"
  ELSE ""
\* the field validator of analysis: the ValueError it raises, "" when none
validate_analysis_length(v) ==
  IF word_count(v) < min_words THEN "Value error, Analise muito curta"
  ELSE IF word_count(v) > max_words THEN "Value error, Analise muito longa"
  ELSE ""

AnalysisErrors(kv) ==
  IF ~HasKey(kv, "analysis") THEN <<Err("Field required", <<"analysis">>)>>
  ELSE LET v == GetKey(kv, "analysis") IN
    IF v.t # "str" THEN <<Err("Input should be a valid string", <<"analysis">>)>>
    ELSE IF validate_analysis_length(v) # ""
      THEN <<Err(validate_analysis_length(v), <<"analysis">>)>>
    ELSE <<>>

\* mutant: the upper limit is exclusive
BoundedListErrors_exclusive(kv, k, lo, hi) ==
  IF ~HasKey(kv, k) THEN <<Err("Field required", <<k>>)>>
  ELSE LET v == GetKey(kv, k) IN
    IF v.t # "list" THEN <<Err("Input should be a valid list", <<k>>)>>
    ELSE IF v.n < lo THEN <<Err("List should have at least min_length items", <<k>>)>>
    ELSE IF v.n >= hi THEN <<Err("List should have at most max_length items", <<k>>)>>
    ELSE <<>>
\* a List[str] field declared with Field(min_length=lo, max_length=hi)
BoundedListErrors(kv, k, lo, hi) ==
  IF ~HasKey(kv, k) THEN <<Err("Field required", <<k>>)>>
  ELSE LET v == GetKey(kv, k) IN
    IF v.t # "list" THEN <<Err("Input should be a valid list", <<k>>)>>
    ELSE IF v.n < lo THEN <<Err("List should have at least min_length items", <<k>>)>>
    ELSE IF v.n > hi THEN <<Err("List should have at most max_length items", <<k>>)>>
    ELSE <<>>

\* a field of a nested model, declared with the plain type t
PlainErrors(kv, parent, k, t) ==
  IF ~HasKey(kv, k) THEN <<Err("Field required", <<parent, k>>)>>
  ELSE IF GetKey(kv, k).t # t THEN <<Err("Input should be a valid " \o t, <<parent, k>>)>>
  ELSE <<>>

LevelErrors(kv) ==
  IF ~HasKey(kv, "level") THEN <<Err("Field required", <<"risk_assessment", "level">>)>>
  ELSE LET v == GetKey(kv, "level") IN
    IF v.t = "str" /\ v.s \in RiskLevels THEN <<>>
    ELSE <<Err("Input should be 'baixo', 'medio' or 'alto'", <<"risk_assessment", "level">>)>>

RiskAssessmentErrors(kv) ==
  IF ~HasKey(kv, "risk_assessment") THEN <<Err("Field required", <<"risk_assessment">>)>>
  ELSE LET v == GetKey(kv, "risk_assessment") IN
    IF v.t # "obj" THEN <<Err("Input should be a valid dictionary", <<"risk_assessment">>)>>
    ELSE LevelErrors(v.kv) \o PlainErrors(v.kv, "risk_assessment", "signals", "list")

ClinicalReportErrors(kv) ==
  IF ~HasKey(kv, "clinical_report") THEN <<Err("Field required", <<"clinical_report">>)>>
  ELSE LET v == GetKey(kv, "clinical_report") IN
    IF v.t # "obj" THEN <<Err("Input should be a valid dictionary", <<"clinical_report">>)>>
    ELSE PlainErrors(v.kv, "clinical_report", "required", "bool")
         \o PlainErrors(v.kv, "clinical_report", "summary", "str")

\* mutant: validation stops at the first field that fails
ClinicalOutputErrors_first(kv) ==
  LET all == AnalysisErrors(kv)
             \o BoundedListErrors(kv, "themes", themes_min, themes_max)
             \o BoundedListErrors(kv, "signifiers", signifiers_min, signifiers_max)
             \o BoundedListErrors(kv, "hypotheses", hypotheses_min, hypotheses_max)
             \o BoundedListErrors(kv, "questions", questions_min, questions_max)
             \o RiskAssessmentErrors(kv)
             \o ClinicalReportErrors(kv)
  IN IF all = <<>> THEN <<>> ELSE <<all[1]>>
\* the fields of ClinicalOutput are validated in declaration order and every
\* failure is collected
ClinicalOutputErrors(kv) ==
  AnalysisErrors(kv)
  \o BoundedListErrors(kv, "themes", themes_min, themes_max)
  \o BoundedListErrors(kv, "signifiers", signifiers_min, signifiers_max)
  \o BoundedListErrors(kv, "hypotheses", hypotheses_min, hypotheses_max)
  \o BoundedListErrors(kv, "questions", questions_min, questions_max)
  \o RiskAssessmentErrors(kv)
  \o ClinicalReportErrors(kv)

\* the model instance built from a document that passed every check; keys
\* the schema does not declare are ignored
RiskAssessment(kv) ==
  [cls |-> "RiskAssessment",
   fields |-> [level |-> PyOf(GetKey(kv, "level")),
               signals |-> PyOf(GetKey(kv, "signals"))]]
ClinicalReport(kv) ==
  [cls |-> "ClinicalReport",
   fields |-> [required |-> PyOf(GetKey(kv, "required")),
               summary |-> PyOf(GetKey(kv, "summary"))]]
ClinicalOutput(kv) ==
  [cls |-> "ClinicalOutput",
   fields |-> [analysis |-> PyOf(GetKey(kv, "analysis")),
               themes |-> PyOf(GetKey(kv, "themes")),
               signifiers |-> PyOf(GetKey(kv, "signifiers")),
               hypotheses |-> PyOf(GetKey(kv, "hypotheses")),
               questions |-> PyOf(GetKey(kv, "questions")),
               risk_assessment |-> RiskAssessment(GetKey(kv, "risk_assessment").kv),
               clinical_report |-> ClinicalReport(GetKey(kv, "clinical_report").kv)]]

\* ClinicalOutput.model_validate_json(raw): the instance, or the exception
\* raised.  pydantic reports a raw that is no str, a str that is no JSON and
\* a JSON value that is no object each as a ValidationError with one entry.
Raised(exc, errs) == [exc |-> exc, errs |-> errs, obj |-> None]
Returned(obj) == [exc |-> "", errs |-> <<>>, obj |-> Some(obj)]
model_validate_json(raw) ==
  IF raw = None
    THEN Raised("ValidationError", <<Err("JSON input should be string, bytes or bytearray", <<>>)>>)
  ELSE IF ~raw[1].wf
    THEN Raised("ValidationError", <<Err("Invalid JSON", <<>>)>>)
  ELSE IF raw[1].val.t # "obj"
    THEN Raised("ValidationError", <<Err("Input should be an object", <<>>)>>)
  ELSE IF ClinicalOutputErrors(raw[1].val.kv) # <<>>
    THEN Raised("ValidationError", ClinicalOutputErrors(raw[1].val.kv))
  ELSE Returned(ClinicalOutput(raw[1].val.kv))

\* output_obj.model_dump(): the instance as plain dicts, nested models too
model_dump(o) ==
  [analysis |-> o.fields.analysis,
   themes |-> o.fields.themes,
   signifiers |-> o.fields.signifiers,
   hypotheses |-> o.fields.hypotheses,
   questions |-> o.fields.questions,
   risk_assessment |-> o.fields.risk_assessment.fields,
   clinical_report |-> o.fields.clinical_report.fields]

\* ------------------------------------------------------ 3. prompt helpers

\* load_prompt(prompt_version): fs is what the prompts directory holds for
\* that version: no file, a readable file, or a file whose read raises
PromptFiles == {"missing", "readable", "unreadable"}
ReadError == "OSError"
Value(v) == [exc |-> "", value |-> v]
Raise(exc) == [exc |-> exc, value |-> ""]
load_prompt(prompt_version, fs) ==
  IF fs = "missing" THEN Value("builtin template")
  ELSE IF fs = "readable" THEN Value("prompt_" \o prompt_version \o ".txt")
  ELSE Raise(ReadError)

\* prompt_template.replace("{INPUT}", input_text)
RenderPrompt(prompt_template, input_text) ==
  [template |-> prompt_template, input |-> input_text]

\* ----------------------------------------------------------- 4. model call

\* mutant: a mock whose analysis is too short for the schema
mock_response_short ==
  [analysis |-> PyStr("mock analysis", 30),
   themes |-> PyList("mock themes", 5),
   signifiers |-> PyList("mock signifiers", 5),
   hypotheses |-> PyList("mock hypotheses", 3),
   questions |-> PyList("mock questions", 4),
   risk_assessment |-> [level |-> PyStr("baixo", 1),
                        signals |-> PyList("mock signals", 2)],
   clinical_report |-> [required |-> PyBool(FALSE),
                        summary |-> PyStr("mock summary", 20)]]
mock_response ==
  [analysis |-> PyStr("mock analysis", 108),
   themes |-> PyList("mock themes", 5),
   signifiers |-> PyList("mock signifiers", 5),
   hypotheses |-> PyList("mock hypotheses", 3),
   questions |-> PyList("mock questions", 4),
   risk_assessment |-> [level |-> PyStr("baixo", 1),
                        signals |-> PyList("mock signals", 2)],
   clinical_report |-> [required |-> PyBool(FALSE),
                        summary |-> PyStr("mock summary", 20)]]

\* a complete document as the API may write it: analysis of a words, lists
\* of the given lengths, the given risk level
ApiDoc(a, th, sg, hy, qu, lvl) ==
  JsonText(JObj(<<
    Entry("analysis", JLeaf("str", "api analysis", a)),
    Entry("themes", JLeaf("list", "api themes", th)),
    Entry("signifiers", JLeaf("list", "api signifiers", sg)),
    Entry("hypotheses", JLeaf("list", "api hypotheses", hy)),
    Entry("questions", JLeaf("list", "api questions", qu)),
    Entry("risk_assessment", JObj(<<
      Entry("level", JLeaf("str", lvl, 1)),
      Entry("signals", JLeaf("list", "api signals", 1)) >>)),
    Entry("clinical_report", JObj(<<
      Entry("required", JLeaf("bool", "true", 0)),
      Entry("summary", JLeaf("str", "api summary", 12)) >>)) >>))

\* what client.chat.completions.create can do: raise, or return a completion
\* whose message content is a str (a valid document, one with a short
\* analysis, one with two violations, text that is no JSON) or None
ApiContents ==
  { Some(ApiDoc(60, 4, 4, 3, 4, "baixo")),
    Some(ApiDoc(39, 4, 4, 3, 4, "alto")),
    Some(ApiDoc(60, 2, 4, 3, 4, "Alto")),
    Some(BrokenText),
    None }

\* a wider range of documents: every field at and just outside both of its
\* limits, levels in and out of the Literal, a document lacking a key, one
\* holding a number for a key, one whose nested object lacks a key, a JSON
\* array
TopKeys == {"analysis", "themes", "signifiers", "hypotheses", "questions",
            "risk_assessment", "clinical_report"}
GoodDoc == ApiDoc(60, 4, 4, 3, 4, "baixo")
Without(text, k) ==
  JsonText(JObj(SelectSeq(text.val.kv, LAMBDA e : e.k # k)))
With(text, k, v) ==
  JsonText(JObj([j \in 1..Len(text.val.kv) |->
    IF text.val.kv[j].k = k THEN Entry(k, v) ELSE text.val.kv[j]]))
WideContents ==
  { Some(ApiDoc(a, th, sg, hy, qu, lvl)) :
      a \in {min_words - 1, min_words, max_words, max_words + 1},
      th \in {themes_min - 1, themes_min, themes_max, themes_max + 1},
      sg \in {signifiers_min - 1, signifiers_min, signifiers_max, signifiers_max + 1},
      hy \in {hypotheses_min - 1, hypotheses_min, hypotheses_max, hypotheses_max + 1},
      qu \in {questions_min - 1, questions_min, questions_max, questions_max + 1},
      lvl \in {"baixo", "medio", "alto", "Alto", "high"} }
  \cup { Some(Without(GoodDoc, k)) : k \in TopKeys }
  \cup { Some(With(GoodDoc, k, JLeaf("num", "7", 0))) : k \in TopKeys }
  \cup { Some(With(GoodDoc, "risk_assessment",
                   JObj(<<Entry("signals", JLeaf("list", "api signals", 1))>>))),
         Some(With(GoodDoc, "clinical_report",
                   JObj(<<Entry("required", JLeaf("bool", "true", 0))>>))),
         Some(JsonText(JLeaf("list", "api array", 2))),
         Some(BrokenText),
         None }

ApiError == "APIError"
ApiOutcomes(contents) ==
  {[failed |-> TRUE, content |-> None]}
  \cup {[failed |-> FALSE, content |-> c] : c \in contents}

\* call_model(prompt): one attempt at the API; any exception is caught and
\* the serialized mock is returned instead
Called(exc, value, attempts) == [exc |-> exc, value |-> value, attempts |-> attempts]
\* mutant: the exception of the API call is re-raised
call_model_propagates(prompt, api) ==
  IF api.failed
    THEN Called(ApiError, None, 1)
    ELSE Called("", api.content, 1)
\* mutant: a failed attempt is retried once before the mock is used
call_model_retries(prompt, api) ==
  IF api.failed
    THEN Called("", Some(json_dumps(mock_response)), 2)
    ELSE Called("", api.content, 1)
\* mutant: an answer that is None or no JSON is replaced by the mock
call_model_repairs(prompt, api) ==
  IF api.failed \/ api.content = None \/ ~api.content[1].wf
    THEN Called("", Some(json_dumps(mock_response)), 1)
    ELSE Called("", api.content, 1)
call_model(prompt, api) ==
  IF api.failed
    THEN Called("", Some(json_dumps(mock_response)), 1)
    ELSE Called("", api.content, 1)

\* ------------------------------------------------------ 5. graph nodes

generation_node(state, fs, api) ==
  LET prompt_template == load_prompt(state.prompt_version, fs) IN
  IF prompt_template.exc # ""
    THEN [exc |-> prompt_template.exc, update |-> [raw_response |-> None], attempts |-> 0]
    ELSE LET full_prompt == RenderPrompt(prompt_template.value, state.input_text)
             response_str == call_model(full_prompt, api)
         IN [exc |-> response_str.exc,
             update |-> [raw_response |-> response_str.value],
             attempts |-> response_str.attempts]

ErrorEntry(tag, msg, loc) == [tag |-> tag, msg |-> msg, loc |-> loc]

FormatValidationErrors(errs) ==
  [j \in 1..Len(errs) |-> ErrorEntry("Validation Error", errs[j].msg, errs[j].loc)]

\* state.get("raw_response", ""): the stored value when the key is there,
\* None included; the empty str, which is no JSON, when it is not
GetRawResponse(state) ==
  IF "raw_response" \in DOMAIN state THEN state.raw_response ELSE Some(BrokenText)

\* mutant: raw_response is cleared once it has been validated
validation_node_clears_raw(state) ==
  LET raw == GetRawResponse(state)
      r == model_validate_json(raw)
  IN [parsed_output |-> r.obj,
      errors |-> IF r.exc = "" THEN <<>> ELSE FormatValidationErrors(r.errs),
      raw_response |-> None]
\* mutant: an absent raw_response makes the node return early, no error
validation_node_skips_none(state) ==
  LET raw == GetRawResponse(state)
      r == model_validate_json(raw)
  IN [parsed_output |-> r.obj,
      errors |-> IF r.exc = "" \/ raw = None THEN <<>>
                 ELSE FormatValidationErrors(r.errs)]
\* mutant: the ValidationError branch leaves errors empty
validation_node_drops_errors(state) ==
  LET raw == GetRawResponse(state)
      r == model_validate_json(raw)
  IN [parsed_output |-> r.obj, errors |-> <<>>]
validation_node(state) ==
  LET raw == GetRawResponse(state)
      r == model_validate_json(raw)
  IN [parsed_output |-> r.obj,
      errors |-> IF r.exc = "" THEN <<>>
                 ELSE IF r.exc = "ValidationError" THEN FormatValidationErrors(r.errs)
                 ELSE IF r.exc = "JSONDecodeError"
                   THEN <<ErrorEntry("Erro de Parse JSON", r.exc, <<>>)>>
                 ELSE <<ErrorEntry("Erro Desconhecido", r.exc, <<>>)>>]

\* build_graph: the entry point and the edges of the compiled graph
END == "END"
EntryPoint == "generator"
\* mutant: the validator is wired back to the generator
Edge_revisits(node) == IF node = "generator" THEN "validator" ELSE "generator"
Edge(node) == IF node = "generator" THEN "validator" ELSE END
\* where main stands once the node has returned: at the next node, or past
\* app.invoke when the edge leads to END
AfterNode(node) == IF Edge(node) = END THEN "derive" ELSE Edge(node)

\* the graph applies a node's returned dict to the state: the keys it names
\* are overwritten, the others are kept
Merge(state, update) ==
  [k \in DOMAIN state |-> IF k \in DOMAIN update THEN update[k] ELSE state[k]]

\* ------------------------------------------------------- 7. main execution

Files == {"f" \o ToString(n) : n \in 1..NumFiles}
Texts == {"Eu sempre chego atrasado."}
PromptVersions == {"v2"}

InitialState(fname, text, version) ==
  [filename |-> fname, input_text |-> text, prompt_version |-> version,
   raw_response |-> None, parsed_output |-> None, errors |-> <<>>]

\* what output_obj.model_dump() raises when it fails
DumpError == "SerializationError"

IsOk(output_obj, errors) == output_obj # None /\ Len(errors) = 0

ItemResult(fname, is_ok, errors, final_output) ==
  [file |-> fname, ok |-> is_ok, errors |-> errors, output |-> final_output]

\* mutant: the except branch records no error entry
FaultResult_no_errors(fname, e) ==
  ItemResult(fname, FALSE, <<>>, None)
\* the entry the except branch records
FaultResult(fname, e) ==
  ItemResult(fname, FALSE, <<ErrorEntry("Runtime Error", e, <<>>)>>, None)

\* mutant: results.insert(0, ...) in place of results.append(...)
AppendResult_front(rs, r) == <<r>> \o rs
AppendResult(rs, r) == Append(rs, r)

\* final_output of the try block
\* mutant: the dump is forgotten
FinalOutput_none(is_ok, output_obj) == None
FinalOutput(is_ok, output_obj) ==
  IF is_ok THEN Some(model_dump(output_obj[1])) ELSE None

Payload(version, rs, okc) ==
  [prompt_version |-> version,
   total |-> Len(rs),
   metrics |-> [ok |-> okc, failed |-> Len(rs) - okc],
   results |-> rs]

VARIABLES
  items,           \* read_inputs(INPUT_DIR): the (filename, content) pairs
  prompt_version,  \* the argument of main
  pc,              \* where main stands
  i,               \* index of the item the for loop is at
  state,           \* the graph state of the item in progress, else None
  exc,             \* the exception in flight inside the try block, "" if none
  results,
  ok_count,
  report,          \* what save_results wrote to OUT_PATH, None before
  saves,           \* how many times save_results ran
  calls,           \* per item, the API attempts made for it
  api_failed,      \* per item, whether an API attempt raised
  faults,          \* per item, the exception that reached except, "" if none
  stages,          \* per item, the nodes the graph has run for it, in order
  replies          \* per item, <<content>> once the API has answered it

vars == <<items, prompt_version, pc, i, state, exc, results, ok_count, report,
          saves, calls, api_failed, faults, stages, replies>>

Distinct(seq) == \A a, b \in 1..Len(seq) : a # b => seq[a].fname # seq[b].fname

ItemSeqs ==
  UNION {[1..n -> [fname : Files, text : Texts]] : n \in 0..NumFiles}

\* the files in the order of a sorted directory listing
SortedItems(n) == [j \in 1..n |-> [fname |-> "f" \o ToString(j), text |-> CHOOSE t \in Texts : TRUE]]

Rest ==
  /\ prompt_version \in PromptVersions
  /\ pc = "loop"
  /\ i = 1
  /\ state = None
  /\ exc = ""
  /\ results = <<>>
  /\ ok_count = 0
  /\ report = None
  /\ saves = 0
  /\ calls = [j \in 1..Len(items) |-> 0]
  /\ api_failed = [j \in 1..Len(items) |-> FALSE]
  /\ faults = [j \in 1..Len(items) |-> ""]
  /\ stages = [j \in 1..Len(items) |-> <<>>]
  /\ replies = [j \in 1..Len(items) |-> <<>>]

\* main starts on whatever read_inputs returned: glob gives no order
Init ==
  /\ items \in {s \in ItemSeqs : Distinct(s)}
  /\ Rest

\* main started on a sorted listing of the first n files
InitSorted ==
  /\ items \in {SortedItems(n) : n \in 0..NumFiles}
  /\ Rest

\* for fname, text in items: build initial_state and enter the try block
StartItem ==
  /\ pc = "loop"
  /\ i <= Len(items)
  /\ state' = Some(InitialState(items[i].fname, items[i].text, prompt_version))
  /\ pc' = EntryPoint
  /\ UNCHANGED <<items, prompt_version, i, exc, results, ok_count, report, saves,
                 calls, api_failed, faults, stages, replies>>

\* app.invoke, entry point: the generator node; contents is what the API may
\* answer
GenerationNodeWith(contents) ==
  /\ pc = "generator"
  /\ \E fs \in PromptFiles, api \in ApiOutcomes(contents) :
       \E g \in {generation_node(state[1], fs, api)} :
       /\ calls' = [calls EXCEPT ![i] = @ + g.attempts]
       /\ api_failed' = [api_failed EXCEPT ![i] = g.attempts > 0 /\ api.failed]
       /\ replies' = [replies EXCEPT ![i] =
                        IF g.attempts > 0 /\ ~api.failed THEN <<api.content>> ELSE @]
       /\ IF g.exc # ""
            THEN /\ exc' = g.exc
                 /\ pc' = "except"
                 /\ UNCHANGED state
            ELSE /\ state' = Some(Merge(state[1], g.update))
                 /\ pc' = AfterNode("generator")
                 /\ UNCHANGED exc
  /\ stages' = [stages EXCEPT ![i] = Append(@, "generator")]
  /\ UNCHANGED <<items, prompt_version, i, results, ok_count, report, saves, faults>>

GenerationNode == GenerationNodeWith(ApiContents)
GenerationNodeWide == GenerationNodeWith(WideContents)

\* app.invoke, edge generator -> validator -> END
ValidationNode ==
  /\ pc = "validator"
  /\ \E update \in {validation_node(state[1])} :
       state' = Some(Merge(state[1], update))
  /\ pc' = AfterNode("validator")
  /\ stages' = [stages EXCEPT ![i] = Append(@, "validator")]
  /\ UNCHANGED <<items, prompt_version, i, exc, results, ok_count, report, saves,
                 calls, api_failed, faults, replies>>

\* mutant: the errors of the items before are kept in one list that every
\* result carries
DeriveResult_accumulates ==
  /\ pc = "derive"
  /\ \E dump_raises \in BOOLEAN :
       LET final_state == state[1]
           output_obj == final_state.parsed_output
           errors == final_state.errors
           is_ok == IsOk(output_obj, errors)
           carried == IF results = <<>> THEN <<>> ELSE results[Len(results)].errors
       IN /\ dump_raises => is_ok
          /\ ok_count' = IF is_ok THEN ok_count + 1 ELSE ok_count
          /\ IF dump_raises
               THEN /\ exc' = DumpError
                    /\ pc' = "except"
                    /\ UNCHANGED <<results, i, state>>
               ELSE /\ results' = AppendResult(results,
                         ItemResult(items[i].fname, is_ok, carried \o errors,
                                    FinalOutput(is_ok, output_obj)))
                    /\ pc' = "loop"
                    /\ i' = i + 1
                    /\ state' = None
                    /\ UNCHANGED exc
  /\ UNCHANGED <<items, prompt_version, report, saves, calls, api_failed, faults,
                 stages, replies>>

\* the rest of the try block: is_ok, the counter, model_dump (which may
\* raise) and the append
DeriveResult ==
  /\ pc = "derive"
  /\ \E dump_raises \in BOOLEAN :
       LET final_state == state[1]
           output_obj == final_state.parsed_output
           errors == final_state.errors
           is_ok == IsOk(output_obj, errors)
       IN /\ dump_raises => is_ok
          /\ ok_count' = IF is_ok THEN ok_count + 1 ELSE ok_count
          /\ IF dump_raises
               THEN /\ exc' = DumpError
                    /\ pc' = "except"
                    /\ UNCHANGED <<results, i, state>>
               ELSE /\ results' = AppendResult(results,
                         ItemResult(items[i].fname, is_ok, errors,
                                    FinalOutput(is_ok, output_obj)))
                    /\ pc' = "loop"
                    /\ i' = i + 1
                    /\ state' = None
                    /\ UNCHANGED exc
  /\ UNCHANGED <<items, prompt_version, report, saves, calls, api_failed, faults,
                 stages, replies>>

\* mutant: the except branch records nothing
HandleFault_swallows ==
  /\ pc = "except"
  /\ faults' = [faults EXCEPT ![i] = exc]
  /\ exc' = ""
  /\ state' = None
  /\ pc' = "loop"
  /\ i' = i + 1
  /\ UNCHANGED <<items, prompt_version, results, ok_count, report, saves, calls,
                 api_failed, stages, replies>>

\* mutant: the except branch records the fault and leaves the loop
HandleFault_breaks ==
  /\ pc = "except"
  /\ results' = AppendResult(results, FaultResult(items[i].fname, exc))
  /\ faults' = [faults EXCEPT ![i] = exc]
  /\ exc' = ""
  /\ state' = None
  /\ pc' = "loop"
  /\ i' = Len(items) + 1
  /\ UNCHANGED <<items, prompt_version, ok_count, report, saves, calls, api_failed,
                 stages, replies>>

\* mutant: the except branch records the fault and raises again
HandleFault_reraises ==
  /\ pc = "except"
  /\ results' = AppendResult(results, FaultResult(items[i].fname, exc))
  /\ faults' = [faults EXCEPT ![i] = exc]
  /\ pc' = "raised"
  /\ UNCHANGED <<items, prompt_version, i, state, exc, ok_count, report, saves,
                 calls, api_failed, stages, replies>>

\* except Exception as e: record the fault and go on with the next item
HandleFault ==
  /\ pc = "except"
  /\ results' = AppendResult(results, FaultResult(items[i].fname, exc))
  /\ faults' = [faults EXCEPT ![i] = exc]
  /\ exc' = ""
  /\ state' = None
  /\ pc' = "loop"
  /\ i' = i + 1
  /\ UNCHANGED <<items, prompt_version, ok_count, report, saves, calls, api_failed,
                 stages, replies>>

\* after the loop: build the payload and save it
Consolidate ==
  /\ pc = "loop"
  /\ i > Len(items)
  /\ report' = Some(Payload(prompt_version, results, ok_count))
  /\ saves' = saves + 1
  /\ pc' = "done"
  /\ UNCHANGED <<items, prompt_version, i, state, exc, results, ok_count, calls,
                 api_failed, faults, stages, replies>>

Next ==
  \/ StartItem
  \/ GenerationNode
  \/ ValidationNode
  \/ DeriveResult
  \/ HandleFault
  \/ Consolidate

Spec == Init /\ [][Next]_vars

\* a batch of one file, the API answering with any of the wider documents
InitOne ==
  /\ items = SortedItems(1)
  /\ Rest

NextWide ==
  \/ StartItem
  \/ GenerationNodeWide
  \/ ValidationNode
  \/ DeriveResult
  \/ HandleFault
  \/ Consolidate

WideSpec == InitOne /\ [][NextWide]_vars

\* main is one sequential thread: it takes its next step whenever it has one
FairSpec == InitSorted /\ [][Next]_vars /\ WF_vars(Next)

\* ------------------------------------------------------------ properties

Done == pc = "done"
Recorded == 1..Len(results)
FallbackText == json_dumps(mock_response)
IsValidationFailure(r) ==
  ~r.ok /\ r.errors # <<>> /\ \A e \in 1..Len(r.errors) : r.errors[e].tag = "Validation Error"
IsRuntimeFault(r) ==
  ~r.ok /\ Len(r.errors) = 1 /\ r.errors[1].tag = "Runtime Error" /\ r.output = None

\* C1: once main has processed every item, whatever mix of successes,
\* validation failures and runtime faults they were, the report has
\* metrics.ok + metrics.failed = total = len(results), and total is the
\* number of input items.
C1_AggregationIdentity ==
  Done =>
    /\ report[1].metrics.ok + report[1].metrics.failed = report[1].total
    /\ report[1].total = Len(report[1].results)
    /\ report[1].total = Len(items)

\* C1 witness: a finished batch of three items holding a success, a
\* validation failure and a runtime fault.
C1_Witness ==
  /\ Done
  /\ Len(items) = 3
  /\ \E a, b, c \in Recorded :
       results[a].ok /\ IsValidationFailure(results[b]) /\ IsRuntimeFault(results[c])

\* C2 (as claimed): in the final report metrics.ok is the number of results
\* whose ok is true and metrics.failed is total - metrics.ok, also when an item
\* faults after its validation succeeded.
C2_OkCountsOkResults ==
  Done =>
    /\ report[1].metrics.ok = Cardinality({j \in Recorded : results[j].ok})
    /\ report[1].metrics.failed = report[1].total - report[1].metrics.ok

\* C3: an item whose processing raises gets exactly one ItemResult with
\* ok = false, one runtime-fault error entry and output null; the loop goes
\* on, so a finished batch has a result of its own for every item, the ones
\* after a faulted item included.
C3_FaultIsolated ==
  /\ \A j \in Recorded :
       faults[j] # "" =>
         results[j] = ItemResult(items[j].fname, FALSE,
                                 <<ErrorEntry("Runtime Error", faults[j], <<>>)>>, None)
  /\ \A j \in 1..Len(items) : faults[j] # "" => j \in Recorded
  /\ Done =>
       /\ Len(results) = Len(items)
       /\ report[1].total = Len(items)
       /\ \A j \in Recorded : results[j].file = items[j].fname
       /\ \A j \in Recorded : faults[j] = "" => ~IsRuntimeFault(results[j])

\* C3 witness: item 2 of 3 faulted, items 1 and 3 succeeded, total is 3.
C3_Witness ==
  /\ Done
  /\ Len(items) = 3
  /\ faults[2] # "" /\ IsRuntimeFault(results[2])
  /\ results[1].ok /\ results[3].ok
  /\ report[1].total = 3

\* C4: results holds one ItemResult per item handled so far, in input order:
\* results[j].file is the filename of the j-th item, and the report's results
\* are that sequence for all the items.
C4_OrderPreserved ==
  /\ Len(results) = i - 1
  /\ Len(results) <= Len(items)
  /\ \A j \in Recorded : results[j].file = items[j].fname
  /\ Done =>
       /\ Len(report[1].results) = Len(items)
       /\ \A j \in 1..Len(items) : report[1].results[j].file = items[j].fname

\* C4 witness: three items ended a success, a validation failure and a fault,
\* in some order, and the report lists their files in input order.
C4_Witness ==
  /\ Done
  /\ Len(items) = 3
  /\ results[1].ok /\ IsRuntimeFault(results[2]) /\ IsValidationFailure(results[3])
  /\ \A j \in 1..3 : report[1].results[j].file = items[j].fname

\* C5: in every ItemResult, ok is true exactly when output is present and
\* errors is empty.
C5_OkIffOutputAndNoErrors ==
  \A j \in Recorded :
    results[j].ok <=> (results[j].output # None /\ results[j].errors = <<>>)

\* C5 witness: a report with an ok result carrying an output and a failed one
\* carrying errors and no output.
C5_Witness ==
  /\ Done
  /\ \E a, b \in Recorded :
       /\ results[a].ok /\ results[a].output # None
       /\ ~results[b].ok /\ results[b].errors # <<>> /\ results[b].output = None

C7_ApiFailureAbsorbed ==
  /\ exc # ApiError
  /\ \A j \in Recorded : faults[j] # ApiError
  /\ \A j \in Recorded : \A e \in 1..Len(results[j].errors) :
       results[j].errors[e].msg # ApiError
  /\ (pc \in {"validator", "derive"} /\ api_failed[i]) =>
       state[1].raw_response = Some(FallbackText)

\* C7 witness: the batch finished with an item whose API call failed and
\* whose result carries no error at all.
C7_Witness ==
  /\ Done
  /\ \E j \in Recorded : api_failed[j] /\ results[j].errors = <<>>

C10_ValueXorErrors ==
  pc = "derive" =>
    \/ state[1].parsed_output # None /\ state[1].errors = <<>>
    \/ state[1].parsed_output = None /\ state[1].errors # <<>>

\* C10 witness: the validation stage has just rejected a document with two
\* violations.
C10_Witness ==
  /\ pc = "derive"
  /\ state[1].raw_response # None
  /\ state[1].raw_response[1].wf
  /\ state[1].parsed_output = None
  /\ Len(state[1].errors) = 2


\* ------------------------------------------- properties of the validator

\* the validation stage has just run on a raw_response that is a JSON object
ParsedDoc ==
  /\ pc = "derive"
  /\ state[1].raw_response # None
  /\ state[1].raw_response[1].wf
  /\ state[1].raw_response[1].val.t = "obj"
Doc == state[1].raw_response[1].val.kv
Accepted == state[1].parsed_output # None /\ state[1].errors = <<>>
Rejected == state[1].parsed_output = None /\ state[1].errors # <<>>

Present(kv, k, t) == HasKey(kv, k) /\ GetKey(kv, k).t = t
Sized(kv, k, lo, hi) == Present(kv, k, "list") /\ GetKey(kv, k).n \in lo..hi
WordsOk(kv) == Present(kv, "analysis", "str") /\ GetKey(kv, "analysis").n \in 40..200
ListsOk(kv) ==
  /\ Sized(kv, "themes", 3, 6)
  /\ Sized(kv, "signifiers", 3, 8)
  /\ Sized(kv, "hypotheses", 2, 4)
  /\ Sized(kv, "questions", 3, 6)
LevelOk(kv) ==
  /\ Present(kv, "risk_assessment", "obj")
  /\ Present(GetKey(kv, "risk_assessment").kv, "level", "str")
  /\ GetKey(GetKey(kv, "risk_assessment").kv, "level").s \in {"baixo", "medio", "alto"}
\* the fields the schema declares without a limit are there with their type
UnboundedOk(kv) ==
  /\ Present(kv, "risk_assessment", "obj")
  /\ Present(GetKey(kv, "risk_assessment").kv, "signals", "list")
  /\ Present(kv, "clinical_report", "obj")
  /\ Present(GetKey(kv, "clinical_report").kv, "required", "bool")
  /\ Present(GetKey(kv, "clinical_report").kv, "summary", "str")

C12_WordCountInclusive ==
  (ParsedDoc /\ ListsOk(Doc) /\ LevelOk(Doc) /\ UnboundedOk(Doc)
     /\ Present(Doc, "analysis", "str")) =>
    /\ GetKey(Doc, "analysis").n = 40 => Accepted
    /\ GetKey(Doc, "analysis").n = 39 => Rejected
    /\ GetKey(Doc, "analysis").n = 200 => Accepted
    /\ GetKey(Doc, "analysis").n = 201 => Rejected

\* C12 witness: a document whose analysis has exactly 40 words, its other
\* fields valid, was accepted.
C12_Witness ==
  /\ ParsedDoc
  /\ ListsOk(Doc) /\ LevelOk(Doc) /\ UnboundedOk(Doc)
  /\ Present(Doc, "analysis", "str")
  /\ GetKey(Doc, "analysis").n = 40
  /\ Accepted

\* C13 (as claimed): a raw_response that is not well-formed JSON yields no
\* value and exactly one error, tagged as a parse error and not as a
\* validation error.
C13_ParseErrorTagged ==
  (pc = "derive" /\ state[1].raw_response # None /\ ~state[1].raw_response[1].wf) =>
    /\ state[1].parsed_output = None
    /\ Len(state[1].errors) = 1
    /\ state[1].errors[1].tag = "Erro de Parse JSON"

\* the paths of the fields of a document that break their rule; a field
\* inside a nested object counts when that object is there
NestedViolations(kv, parent, k, t) ==
  IF Present(kv, parent, "obj") /\ ~Present(GetKey(kv, parent).kv, k, t)
    THEN {<<parent, k>>} ELSE {}
Violations(kv) ==
  (IF WordsOk(kv) THEN {} ELSE {<<"analysis">>})
  \cup (IF Sized(kv, "themes", 3, 6) THEN {} ELSE {<<"themes">>})
  \cup (IF Sized(kv, "signifiers", 3, 8) THEN {} ELSE {<<"signifiers">>})
  \cup (IF Sized(kv, "hypotheses", 2, 4) THEN {} ELSE {<<"hypotheses">>})
  \cup (IF Sized(kv, "questions", 3, 6) THEN {} ELSE {<<"questions">>})
  \cup (IF Present(kv, "risk_assessment", "obj") THEN {} ELSE {<<"risk_assessment">>})
  \cup (IF Present(kv, "risk_assessment", "obj") /\ ~LevelOk(kv)
          THEN {<<"risk_assessment", "level">>} ELSE {})
  \cup NestedViolations(kv, "risk_assessment", "signals", "list")
  \cup (IF Present(kv, "clinical_report", "obj") THEN {} ELSE {<<"clinical_report">>})
  \cup NestedViolations(kv, "clinical_report", "required", "bool")
  \cup NestedViolations(kv, "clinical_report", "summary", "str")

\* C14: validation does not stop at the first failure: the error list of a
\* well-formed document has one descriptor per violating field, each field
\* that violates its rule being referenced by a descriptor.
C14_AllViolationsCollected ==
  ParsedDoc =>
    /\ Len(state[1].errors) = Cardinality(Violations(Doc))
    /\ \A p \in Violations(Doc) :
         \E e \in 1..Len(state[1].errors) : state[1].errors[e].loc = p
    /\ \A e \in 1..Len(state[1].errors) : state[1].errors[e].loc \in Violations(Doc)

\* C14 witness: a document with a short analysis, too many themes, too few
\* questions and a level outside the Literal got four descriptors.
C14_Witness ==
  /\ ParsedDoc
  /\ Violations(Doc) = {<<"analysis">>, <<"themes">>, <<"questions">>,
                        <<"risk_assessment", "level">>}
  /\ Len(state[1].errors) = 4


\* ------------------------------------- properties of the stages and items

BothStages == <<"generator", "validator">>

Frozen(a, b) ==
  /\ DOMAIN a = DOMAIN b
  /\ a.filename = b.filename
  /\ a.input_text = b.input_text
  /\ a.prompt_version = b.prompt_version

\* C16: the generation stage writes raw_response and leaves the other five
\* fields as they were; the validation stage writes parsed_output and errors
\* and leaves the other four as they were; filename, input_text and
\* prompt_version of the state are those it was created with.
C16_StagesWriteOwnFields ==
  /\ [][(pc = "generator" /\ pc' = "validator") =>
          /\ Frozen(state[1], state'[1])
          /\ state'[1].parsed_output = state[1].parsed_output
          /\ state'[1].errors = state[1].errors]_vars
  /\ [][(pc = "validator" /\ pc' = "derive") =>
          /\ Frozen(state[1], state'[1])
          /\ state'[1].raw_response = state[1].raw_response]_vars
  /\ [](state # None =>
          /\ state[1].filename = items[i].fname
          /\ state[1].input_text = items[i].text
          /\ state[1].prompt_version = prompt_version)

\* C16 witness: a terminal state holding a raw_response, errors and the
\* filename, input_text and prompt_version of its item.
C16_Witness ==
  /\ pc = "derive"
  /\ state[1].raw_response # None
  /\ state[1].errors # <<>>
  /\ state[1].filename = items[i].fname
  /\ state[1].input_text = items[i].text
  /\ state[1].prompt_version = prompt_version

\* a state without the raw_response key, and one holding the empty str
StateWithoutRaw ==
  [filename |-> "f1", input_text |-> "t", prompt_version |-> "v2",
   parsed_output |-> None, errors |-> <<>>]
StateWithEmptyRaw ==
  [filename |-> "f1", input_text |-> "t", prompt_version |-> "v2",
   raw_response |-> Some(BrokenText), parsed_output |-> None, errors |-> <<>>]

InvalidReply(c) ==
  \/ c = None
  \/ ~c[1].wf
  \/ c[1].val.t # "obj"
  \/ Violations(c[1].val.kv) # {}

\* C18: when the API call succeeds, the text the validator gets is the text
\* the API returned, unaltered, so an invalid answer ends as a validation
\* failure.
C18_ReplyHandedUnmodified ==
  /\ (pc \in {"validator", "derive"} /\ ~api_failed[i]) =>
       replies[i] = <<state[1].raw_response>>
  /\ \A j \in Recorded :
       (replies[j] # <<>> /\ InvalidReply(replies[j][1])) =>
         IsValidationFailure(results[j])

\* C18 witness: the API answered with text that is no JSON, the validator
\* got that text and recorded an error.
C18_Witness ==
  /\ pc = "derive"
  /\ ~api_failed[i]
  /\ replies[i] = <<Some(BrokenText)>>
  /\ state[1].raw_response = Some(BrokenText)
  /\ state[1].errors # <<>>

\* the result of an item processed alone, from its own file, the outcome of
\* its own prompt load, its own API answer and its own dump
IsolatedResult(j) ==
  IF faults[j] # "" THEN FaultResult(items[j].fname, faults[j])
  ELSE LET raw == IF api_failed[j] THEN Some(FallbackText) ELSE replies[j][1]
           fresh == InitialState(items[j].fname, items[j].text, prompt_version)
           generated == Merge(fresh, [raw_response |-> raw])
           final == Merge(generated, validation_node(generated))
           is_ok == IsOk(final.parsed_output, final.errors)
       IN ItemResult(items[j].fname, is_ok, final.errors,
                     FinalOutput(is_ok, final.parsed_output))

\* C19: every item starts from a fresh state (raw_response and parsed_output
\* absent, errors empty); its result is the one it would get processed
\* alone, whatever the items before it did; and a recorded result is never
\* changed by the items after it.
C19_ItemsIndependent ==
  /\ [](pc = "generator" =>
          state = Some(InitialState(items[i].fname, items[i].text, prompt_version)))
  /\ [](\A j \in Recorded : results[j] = IsolatedResult(j))
  /\ [][\A j \in Recorded : j <= Len(results') /\ results'[j] = results[j]]_vars

\* C19 witness: the first item failed validation, the second faulted, and
\* the third succeeded with no error of theirs in its result.
C19_Witness ==
  /\ Done
  /\ Len(items) = 3
  /\ IsValidationFailure(results[1])
  /\ IsRuntimeFault(results[2])
  /\ results[3].ok /\ results[3].errors = <<>>

\* C20: every ItemResult with ok = false carries at least one error entry
\* and a null output, after a validation failure and after a runtime fault.
C20_FailedHasErrors ==
  \A j \in Recorded :
    ~results[j].ok => (Len(results[j].errors) >= 1 /\ results[j].output = None)

\* C20 witness: the report holds a validation failure and a runtime fault,
\* each with its error entries and no output.
C20_Witness ==
  /\ Done
  /\ \E a, b \in Recorded :
       /\ IsValidationFailure(results[a]) /\ results[a].output = None
       /\ IsRuntimeFault(results[b]) /\ Len(results[b].errors) = 1

====
